---------------------------- MODULE Spec2Model ----------------------------
(***************************************************************************)
(* Model of frontend/both.py: the catalog matcher, the narrative parser of *)
(* generate_research, the question parsers, the rubric evaluator and the   *)
(* Streamlit script main() with its session state.                         *)
(*                                                                         *)
(* A text is a sequence of one-character strings, so that the string       *)
(* operations of the code (strip, lower, split, replace, in, join) are     *)
(* modelled character by character.  A fixed message of the code that is   *)
(* only ever copied (a sentinel) is one element of such a sequence.        *)
(***************************************************************************)
EXTENDS Integers, Sequences, FiniteSets, TLC

VARIABLES
    tavily_client,  \* TRUE iff setup_apis built a TavilyClient (TAVILY_API_KEY set)
    json_file,      \* problem.json: [state |-> "missing" | "malformed" | "ok", doc |-> entries]
    oracle,         \* the completion oracle's script for the invocation: a reply or a failure
    search,         \* the search backend's script for the invocation: a result or a failure
    call,           \* the invocation that ran last: function name and arguments
    ret,            \* how it ended: returned a value, returned None/[], or raised
    outbound,       \* the outbound calls it issued, in order
    shown,          \* the st.error / st.warning messages it showed, in order
    consulted,      \* the catalog functions it called, in order
    gemini_env,     \* TRUE iff os.getenv("GEMINI_API_KEY") gives a non-empty value
    session_state,  \* st.session_state: the keys main() sets, with their values
    widgets,        \* the values the front end holds for the widgets of the page
    rendered        \* what the last run of main() put on the page

\* the variables of one invocation of a function
invocation == <<oracle, search, call, ret, outbound, shown, consulted>>

\* the variables of the Streamlit session
session == <<gemini_env, session_state, widgets, rendered>>

vars == <<tavily_client, json_file, oracle, search, call, ret, outbound, shown,
          consulted, gemini_env, session_state, widgets, rendered>>

-----------------------------------------------------------------------------
(* Bounds of the model *)

MaxCatalog == 2        \* entries in a catalog handed to the matcher
MaxReplyPieces == 4    \* pieces in an arbitrary oracle reply (narrative parser)
MaxReplyLines == 3     \* lines in an oracle reply put together line by line
MaxPartPieces == 2     \* pieces in each of the texts A and B of a "1. A\n2. B" reply
MaxResearchPieces == 1 \* pieces in an oracle reply (generate_research on all arguments)
MaxQuestionPieces == 4 \* pieces in an oracle reply (question parsers)
MaxEvaluationPieces == 3 \* pieces in a submission and in the oracle's reply to it
MaxQuestions == 2      \* questions in the list of the session when one more is added

-----------------------------------------------------------------------------
(* Python values *)

Range(s) == {s[i] : i \in 1..Len(s)}

\* the three ways a call ends
Return(v) == [kind |-> "return", value |-> v]
ReturnNone == [kind |-> "none"]
Raise(e) == [kind |-> "raise", exc |-> e]

\* str.isspace for the characters of the model
isspace(c) == c \in {" ", "\n"}

\* str.isdigit for the characters of the model
isdigit(c) == c \in {"0", "1", "2", "3", "4", "5", "6", "7", "8", "9"}

lower_keeps_case(s) == s

\* str.lower
lower(s) ==
    [i \in 1..Len(s) |->
        CASE s[i] = "A" -> "a"
          [] s[i] = "B" -> "b"
          [] s[i] = "C" -> "c"
          [] OTHER -> s[i]]

RECURSIVE lstrip(_)
lstrip(s) == IF s # <<>> /\ isspace(Head(s)) THEN lstrip(Tail(s)) ELSE s

RECURSIVE rstrip(_)
rstrip(s) ==
    IF s # <<>> /\ isspace(s[Len(s)]) THEN rstrip(SubSeq(s, 1, Len(s) - 1)) ELSE s

\* str.strip
strip(s) == rstrip(lstrip(s))

\* s[i:].startswith(sub), i counted from 1
startswith(s, sub, i) ==
    /\ i + Len(sub) - 1 <= Len(s)
    /\ SubSeq(s, i, i + Len(sub) - 1) = sub

\* str.find from position i, counted from 1; 0 when sub does not occur
RECURSIVE find(_, _, _)
find(s, sub, i) ==
    IF i + Len(sub) - 1 > Len(s) THEN 0
    ELSE IF startswith(s, sub, i) THEN i
    ELSE find(s, sub, i + 1)

\* sub in s
contains(s, sub) == find(s, sub, 1) # 0

\* str.split(sep): cut at every occurrence of sep, left to right
RECURSIVE split(_, _)
split(s, sep) ==
    LET i == find(s, sep, 1) IN
    IF i = 0 THEN <<s>>
    ELSE <<SubSeq(s, 1, i - 1)>> \o split(SubSeq(s, i + Len(sep), Len(s)), sep)

\* str.split(sep, 1): cut at the first occurrence of sep only
split1(s, sep) ==
    LET i == find(s, sep, 1) IN
    IF i = 0 THEN <<s>>
    ELSE <<SubSeq(s, 1, i - 1), SubSeq(s, i + Len(sep), Len(s))>>

\* str.replace(old, new): every occurrence, left to right
RECURSIVE replace(_, _, _)
replace(s, old, new) ==
    LET i == find(s, old, 1) IN
    IF i = 0 THEN s
    ELSE SubSeq(s, 1, i - 1) \o new \o replace(SubSeq(s, i + Len(old), Len(s)), old, new)

\* sep.join(parts)
RECURSIVE join(_, _)
join(parts, sep) ==
    IF parts = <<>> THEN <<>>
    ELSE IF Len(parts) = 1 THEN parts[1]
    ELSE parts[1] \o sep \o join(Tail(parts), sep)

\* dict.get(key, default)
get(d, key, default) == IF key \in DOMAIN d THEN d[key] ELSE default

\* the concatenation of a sequence of pieces
RECURSIVE Flatten(_)
Flatten(ps) == IF ps = <<>> THEN <<>> ELSE Head(ps) \o Flatten(Tail(ps))

\* all sequences over S of length at most n
SeqsUpTo(S, n) == UNION {[1..k -> S] : k \in 0..n}

-----------------------------------------------------------------------------
(* find_matching_problem *)

\* the loop of find_matching_problem from entry k on
RECURSIVE find_matching_problem_from(_, _, _, _, _)
find_matching_problem_from(problems, sdgs, problem_text, idea_text, k) ==
    IF k > Len(problems) THEN ReturnNone
    ELSE
        LET problem_data == problems[k]
            problem_sdgs == get(problem_data, "sdgs", {})
            rest == find_matching_problem_from(problems, sdgs, problem_text, idea_text, k + 1)
        IN
        IF \E sdg \in sdgs : sdg \in problem_sdgs
        THEN IF problem_text # <<>> /\ idea_text # <<>>
             THEN IF "problem" \notin DOMAIN problem_data THEN Raise("KeyError")
                  ELSE IF /\ contains(lower(problem_data.problem), lower(problem_text))
                          /\ idea_text \in Range(get(problem_data, "ideas", <<>>))
                  THEN Return(problem_data)
                  ELSE rest
             ELSE IF problem_text # <<>>
             THEN IF "problem" \notin DOMAIN problem_data THEN Raise("KeyError")
                  ELSE IF contains(lower(problem_data.problem), lower(problem_text))
                  THEN Return(problem_data)
                  ELSE rest
             ELSE rest
        ELSE rest

find_matching_problem(problems, sdgs, problem_text, idea_text) ==
    find_matching_problem_from(problems, sdgs, problem_text, idea_text, 1)

-----------------------------------------------------------------------------
(* Inputs of the matcher *)

Tags == {"s1", "s2"}

\* entries of problem.json; json.load validates nothing, so any key may be absent
CatalogEntries ==
    { [problem |-> <<"a", "B">>, ideas |-> << <<"i">> >>, sdgs |-> {"s1"}],
      [problem |-> <<"a", "B">>, ideas |-> << <<"i">> >>, sdgs |-> {"s2"}],
      [problem |-> <<"B">>, ideas |-> <<>>, sdgs |-> {"s1", "s2"}],
      [problem |-> <<"B">>, ideas |-> << <<"I">>, <<"i">> >>, sdgs |-> {"s1"}],
      [problem |-> <<"a", "B">>, sdgs |-> {"s1"}],
      [problem |-> <<"B">>, ideas |-> << <<"i">> >>],
      [ideas |-> << <<"i">> >>, sdgs |-> {"s1"}] }

ProblemTexts == {<<>>, <<"a">>, <<"A", "b">>, <<"b">>}
IdeaTexts == {<<>>, <<"i">>, <<"I">>}

Idle == [fn |-> "idle"]

\* the one element of a set of one element: The({e : x \in {v}}) is e with x
\* standing for the value v, worked out once
The(S) == CHOOSE x \in S : TRUE

\* a backend that is not called in the invocation
Unused == [kind |-> "unused"]

InitCall ==
    /\ call = Idle
    /\ oracle = Unused
    /\ search = Unused
    /\ ret = ReturnNone
    /\ outbound = <<>>
    /\ shown = <<>>
    /\ consulted = <<>>

\* a dict without keys
EmptyDict == [key \in {} |-> {}]

\* the first option of the st.radio of the question tab, and the other one
BASED_ON_MARKET_RESEARCH == "Based on Market Research"
BASED_ON_SDGS_ONLY == "Based on SDGs Only"

\* the front end before the page is drawn: no checkbox and no question field has a
\* value, the radio stands on its first option
NoWidgets ==
    [sdg_research |-> EmptyDict, sdg_research_manual |-> EmptyDict,
     sdg_questions |-> EmptyDict, question |-> <<>>,
     question_mode |-> BASED_ON_MARKET_RESEARCH]

\* the page before main() has run
NothingRendered ==
    [stopped |-> FALSE, buttons |-> {}, questions |-> 0,
     enabled |-> [sdg_research |-> {}, sdg_research_manual |-> {}, sdg_questions |-> {}]]

\* the functions called on their own: no page, an empty session
NoSession ==
    /\ gemini_env = TRUE
    /\ session_state = EmptyDict
    /\ widgets = NoWidgets
    /\ rendered = NothingRendered

\* one call of find_matching_problem
FindMatchingProblem(problems, sdgs, problem_text, idea_text) ==
    /\ call = Idle
    /\ call' = [fn |-> "find_matching_problem", problems |-> problems, sdgs |-> sdgs,
                problem_text |-> problem_text, idea_text |-> idea_text]
    /\ ret' = find_matching_problem(problems, sdgs, problem_text, idea_text)
    /\ UNCHANGED <<tavily_client, json_file, oracle, search, outbound, shown, consulted>>
    /\ UNCHANGED session

InitMatch ==
    /\ tavily_client = FALSE
    /\ json_file = [state |-> "missing"]
    /\ InitCall
    /\ NoSession

NextMatch ==
    /\ call = Idle
    /\ \E problems \in SeqsUpTo(CatalogEntries, MaxCatalog), sdgs \in SUBSET Tags,
          problem_text \in ProblemTexts, idea_text \in IdeaTexts :
           FindMatchingProblem(problems, sdgs, problem_text, idea_text)

SpecMatch == InitMatch /\ [][NextMatch]_vars

-----------------------------------------------------------------------------
(* load_problems *)

Error(text) == [level |-> "error", text |-> text]
Warning(text) == [level |-> "warning", text |-> text]

\* open(json_file) and json.load(f): the document, or the exception raised
json_load ==
    CASE json_file.state = "unreadable" -> Raise(<<"[Errno 13] Permission denied">>)
      [] json_file.state = "malformed" -> Raise(<<"Expecting value: line 1 column 1 (char 0)">>)
      [] OTHER -> Return(json_file.doc)

\* load_problems that keeps quiet about a file it cannot load
load_problems_silent ==
    IF json_file.state = "ok" THEN [value |-> json_file.doc, shown |-> <<>>]
    ELSE [value |-> <<>>, shown |-> <<>>]

\* load_problems(): the value returned and the messages shown.  The file does
\* not change while the process runs, so the cache of st.cache_data is not seen.
load_problems ==
    IF json_file.state = "missing" THEN [value |-> <<>>, shown |-> <<>>]
    ELSE IF json_load.kind = "raise"
    THEN [value |-> <<>>,
          shown |-> <<Error(<<"Error loading problems: ">> \o json_load.exc)>>]
    ELSE [value |-> json_load.value, shown |-> <<>>]

\* one call of load_problems
LoadProblems ==
    /\ call = Idle
    /\ call' = [fn |-> "load_problems"]
    /\ ret' = Return(load_problems.value)
    /\ shown' = load_problems.shown
    /\ consulted' = <<"load_problems">>
    /\ UNCHANGED <<tavily_client, json_file, oracle, search, outbound, session>>

\* the files load_problems may find
UnloadableFiles == {[state |-> "missing"], [state |-> "malformed"], [state |-> "unreadable"]}

InitLoad ==
    /\ tavily_client = FALSE
    /\ json_file \in UnloadableFiles \cup
                     {[state |-> "ok", doc |-> doc] : doc \in SeqsUpTo(CatalogEntries, MaxCatalog)}
    /\ InitCall
    /\ NoSession

NextLoad == LoadProblems

SpecLoad == InitLoad /\ [][NextLoad]_vars

-----------------------------------------------------------------------------
(* generate_research *)

NO_WEB_SEARCH == <<"No web search available - Tavily API key not configured.">>
SEARCH_ERROR == <<"No summary available due to search API error.">>
NO_SUMMARY == <<"No summary available.">>
NOT_SEPARATED == <<"Competitor information not clearly separated in the response.">>
MARKET_ERROR == <<"Unable to generate market research due to AI model error.">>
COMPETITOR_ERROR == <<"Unable to generate competitor insights due to AI model error.">>
NO_MATCH_ERROR ==
    <<"Either provide both 'problem' and 'idea', or ensure problem_ideas.json exists with matching data">>

ONE_DOT == <<"1", ".">>
TWO_DOT == <<"2", ".">>
NEWLINE == <<"\n">>
COMPETITOR == <<"c", "o", "m", "p", "e", "t", "i", "t", "o", "r">>
COMPETITION == <<"c", "o", "m", "p", "e", "t", "i", "t", "i", "o", "n">>

\* the text the completion oracle returns under a script that replies
ReplyText(script) ==
    IF script.kind = "wellformed"
    THEN ONE_DOT \o <<" ">> \o script.A \o NEWLINE \o TWO_DOT \o <<" ">> \o script.B
    ELSE script.text

\* classify_lines with the section chosen anew for every line
RECURSIVE classify_lines_per_line(_, _, _, _, _)
classify_lines_per_line(lines, k, current_section, market_research_lines, competitor_lines) ==
    IF k > Len(lines)
    THEN [market_research_lines |-> market_research_lines,
          competitor_lines |-> competitor_lines]
    ELSE
        LET line == lines[k] IN
        IF contains(lower(line), COMPETITOR) \/ contains(lower(line), COMPETITION)
        THEN classify_lines_per_line(lines, k + 1, "competitor",
                                     market_research_lines, Append(competitor_lines, line))
        ELSE classify_lines_per_line(lines, k + 1, "market",
                                     Append(market_research_lines, line), competitor_lines)

\* the line loop of the fallback split, from line k on: the section switches to
\* "competitor" at the first line naming a competitor and never switches back
RECURSIVE classify_lines(_, _, _, _, _)
classify_lines(lines, k, current_section, market_research_lines, competitor_lines) ==
    IF k > Len(lines)
    THEN [market_research_lines |-> market_research_lines,
          competitor_lines |-> competitor_lines]
    ELSE
        LET line == lines[k]
            section ==
                IF contains(lower(line), COMPETITOR) \/ contains(lower(line), COMPETITION)
                THEN "competitor"
                ELSE current_section
        IN
        IF section = "market"
        THEN classify_lines(lines, k + 1, section,
                            Append(market_research_lines, line), competitor_lines)
        ELSE classify_lines(lines, k + 1, section,
                            market_research_lines, Append(competitor_lines, line))

\* split_on_markers with the "1." marker left in the first part
split_on_markers_keeps_marker(response_text) ==
    LET parts == split(response_text, TWO_DOT) IN
    [market_research |-> strip(parts[1]), competitors |-> strip(parts[2])]

\* the marker split of the reply
split_on_markers(response_text) ==
    LET parts == split(response_text, TWO_DOT) IN
    [market_research |-> strip(replace(parts[1], ONE_DOT, <<>>)),
     competitors |-> strip(parts[2])]

\* the line-classification split of the reply
split_by_lines(response_text) ==
    LET lines == split(response_text, NEWLINE)
        sections == classify_lines(lines, 1, "market", <<>>, <<>>)
        market_research == strip(join(sections.market_research_lines, NEWLINE))
        competitors == strip(join(sections.competitor_lines, NEWLINE))
    IN
    [market_research |-> market_research,
     competitors |-> IF competitors = <<>> THEN NOT_SEPARATED ELSE competitors]

\* the split of the oracle's reply into market research and competitors
split_response(text) ==
    LET response_text == strip(text) IN
    IF contains(response_text, ONE_DOT) /\ contains(response_text, TWO_DOT)
    THEN split_on_markers(response_text)
    ELSE split_by_lines(response_text)

\* the problem data generate_research works on: synthesized from the arguments, or
\* looked up in the catalog
select_problem_data(sdgs, problem, idea) ==
    IF problem # <<>> /\ idea # <<>>
    THEN [kind |-> "data", shown |-> <<>>, consulted |-> <<>>,
          data |-> [problem |-> problem, ideas |-> <<idea>>, sdgs |-> sdgs]]
    ELSE
        LET loaded == load_problems
            problems == loaded.value
            found ==
                IF problems # <<>>
                THEN find_matching_problem(problems, sdgs, problem, idea)
                ELSE ReturnNone
            functions ==
                IF problems # <<>>
                THEN <<"load_problems", "find_matching_problem">>
                ELSE <<"load_problems">>
        IN
        CASE found.kind = "raise" ->
                [kind |-> "raise", shown |-> loaded.shown, consulted |-> functions,
                 exc |-> found.exc]
          [] found.kind = "none" ->
                [kind |-> "none", shown |-> Append(loaded.shown, Error(NO_MATCH_ERROR)),
                 consulted |-> functions]
          [] OTHER ->
                [kind |-> "data", shown |-> loaded.shown, consulted |-> functions,
                 data |-> found.value]

\* a value of the search result that is not a string (a JSON number)
NOT_A_STRING == <<"<a number>">>

\* ', '.join(source_urls) raises TypeError when an item is not a string
join_raises(source_urls) ==
    \E n \in 1..Len(source_urls) : source_urls[n] = NOT_A_STRING

INTERNAL_ERROR == <<"Internal error: sequence item 0: expected str instance, int found">>

\* the urls of the sources that have a non-empty one
RECURSIVE source_urls_of(_)
source_urls_of(sources) ==
    IF sources = <<>> THEN <<>>
    ELSE
        LET url == get(Head(sources), "url", <<>>) IN
        (IF url # <<>> THEN <<url>> ELSE <<>>) \o source_urls_of(Tail(sources))

\* web_search that keeps the "no web search" default when the search fails
web_search_keeps_default(sdgs, target_market, research_question, client, script) ==
    LET query == [to |-> "search", research_question |-> research_question,
                  target_market |-> target_market, sdgs |-> sdgs]
    IN
    IF ~client
    THEN [web_summary |-> NO_WEB_SEARCH, source_urls |-> <<>>,
          outbound |-> <<>>, shown |-> <<>>]
    ELSE IF script.kind = "error"
    THEN [web_summary |-> NO_WEB_SEARCH, source_urls |-> <<>>,
          outbound |-> <<query>>,
          shown |-> <<Warning(<<"Web search error: ">> \o script.detail)>>]
    ELSE [web_summary |-> get(script.result, "answer", NO_SUMMARY),
          source_urls |-> source_urls_of(get(script.result, "sources", <<>>)),
          outbound |-> <<query>>, shown |-> <<>>]

\* web_search that tries a failed search once more
web_search_retries(sdgs, target_market, research_question, client, script) ==
    LET query == [to |-> "search", research_question |-> research_question,
                  target_market |-> target_market, sdgs |-> sdgs]
    IN
    IF ~client
    THEN [web_summary |-> NO_WEB_SEARCH, source_urls |-> <<>>,
          outbound |-> <<>>, shown |-> <<>>]
    ELSE IF script.kind = "error"
    THEN [web_summary |-> SEARCH_ERROR, source_urls |-> <<>>,
          outbound |-> <<query, query>>,
          shown |-> <<Warning(<<"Web search error: ">> \o script.detail)>>]
    ELSE [web_summary |-> get(script.result, "answer", NO_SUMMARY),
          source_urls |-> source_urls_of(get(script.result, "sources", <<>>)),
          outbound |-> <<query>>, shown |-> <<>>]

\* the search step: summary, sources, the call issued and the warning shown
web_search(sdgs, target_market, research_question, client, script) ==
    LET query == [to |-> "search", research_question |-> research_question,
                  target_market |-> target_market, sdgs |-> sdgs]
    IN
    IF ~client
    THEN [web_summary |-> NO_WEB_SEARCH, source_urls |-> <<>>,
          outbound |-> <<>>, shown |-> <<>>]
    ELSE IF script.kind = "error"
    THEN [web_summary |-> SEARCH_ERROR, source_urls |-> <<>>,
          outbound |-> <<query>>,
          shown |-> <<Warning(<<"Web search error: ">> \o script.detail)>>]
    ELSE [web_summary |-> get(script.result, "answer", NO_SUMMARY),
          source_urls |-> source_urls_of(get(script.result, "sources", <<>>)),
          outbound |-> <<query>>, shown |-> <<>>]

\* ai_insights that sets only market_research when the oracle fails
ai_insights_one_sentinel(script) ==
    IF script.kind = "error"
    THEN [market_research |-> MARKET_ERROR, competitors |-> <<>>,
          shown |-> <<Error(<<"AI model error: ">> \o script.detail)>>]
    ELSE
        LET sections == split_response(ReplyText(script)) IN
        [market_research |-> sections.market_research,
         competitors |-> sections.competitors, shown |-> <<>>]

\* the completion step: the two narrative fields and the error shown
ai_insights(script) ==
    IF script.kind = "error"
    THEN [market_research |-> MARKET_ERROR, competitors |-> COMPETITOR_ERROR,
          shown |-> <<Error(<<"AI model error: ">> \o script.detail)>>]
    ELSE
        LET sections == split_response(ReplyText(script)) IN
        [market_research |-> sections.market_research,
         competitors |-> sections.competitors, shown |-> <<>>]

\* generate_research: how it ends, the outbound calls it issues, what it shows and
\* the catalog functions it calls.  The outer handler (Internal error, return None)
\* is reached when the prompt cannot be put together: a url that is not a string.
generate_research(sdgs, problem, idea, target_market, research_question, client, search_script, oracle_script) ==
    The({
    IF selected.kind = "raise"
    THEN [ret |-> Raise(selected.exc), outbound |-> <<>>, shown |-> selected.shown,
          consulted |-> selected.consulted]
    ELSE IF selected.kind = "none"
    THEN [ret |-> ReturnNone, outbound |-> <<>>, shown |-> selected.shown,
          consulted |-> selected.consulted]
    ELSE
        LET selected_problem_data == selected.data
            ideas == get(selected.data, "ideas", << <<>> >>)
        IN
        IF "problem" \notin DOMAIN selected_problem_data
        THEN [ret |-> Raise("KeyError"), outbound |-> <<>>, shown |-> selected.shown,
              consulted |-> selected.consulted]
        ELSE IF idea = <<>> /\ ideas = <<>>
        THEN [ret |-> Raise("IndexError"), outbound |-> <<>>, shown |-> selected.shown,
              consulted |-> selected.consulted]
        ELSE
            The({
            LET selected_problem == selected_problem_data.problem
                selected_idea == IF idea # <<>> THEN idea ELSE ideas[1]
                prompt == [to |-> "completion", web_summary |-> web.web_summary,
                           source_urls |-> web.source_urls,
                           target_market |-> target_market,
                           research_question |-> research_question,
                           problem |-> selected_problem, idea |-> selected_idea,
                           sdgs |-> sdgs]
            IN
            IF join_raises(web.source_urls)
            THEN [ret |-> ReturnNone, outbound |-> web.outbound,
                  shown |-> selected.shown \o web.shown \o <<Error(INTERNAL_ERROR)>>,
                  consulted |-> selected.consulted]
            ELSE
            The({
            [ret |-> Return([web_summary |-> web.web_summary,
                             market_research |-> ai.market_research,
                             competitor_insights |-> ai.competitors,
                             web_sources |-> web.source_urls,
                             problem |-> selected_problem,
                             idea |-> selected_idea,
                             sdgs |-> sdgs,
                             target_market |-> target_market,
                             research_question |-> research_question]),
             outbound |-> Append(web.outbound, prompt),
             shown |-> selected.shown \o web.shown \o ai.shown,
             consulted |-> selected.consulted] :
                ai \in {ai_insights(oracle_script)}}) :
                web \in {web_search(sdgs, target_market, research_question, client,
                                    search_script)}}) :
        selected \in {select_problem_data(sdgs, problem, idea)}})

Issued(log, backend) == \E n \in 1..Len(log) : log[n].to = backend

\* the call reaches the backend when the search ends as search_script says (a
\* failed search when search_script is Unused); the oracle's outcome keeps the
\* call from no backend, so it is not an argument
Reaches(backend, sdgs, problem, idea, target_market, research_question, search_script) ==
    Issued(generate_research(sdgs, problem, idea, target_market, research_question,
                             tavily_client,
                             IF search_script = Unused
                             THEN [kind |-> "error", detail |-> <<>>]
                             ELSE search_script,
                             [kind |-> "error", detail |-> <<>>]).outbound,
           backend)

\* one call of generate_research; a backend's script is Unused exactly when the
\* call does not reach that backend
GenerateResearch(sdgs, problem, idea, target_market, research_question, search_script, oracle_script) ==
    /\ call = Idle
    /\ (search_script # Unused) <=>
           Reaches("search", sdgs, problem, idea, target_market, research_question, Unused)
    /\ (oracle_script # Unused) <=>
           Reaches("completion", sdgs, problem, idea, target_market, research_question,
                   search_script)
    /\ \E done \in {generate_research(sdgs, problem, idea, target_market,
                                      research_question, tavily_client,
                                      search_script, oracle_script)} :
        /\ call' = [fn |-> "generate_research", sdgs |-> sdgs, problem |-> problem,
                    idea |-> idea, target_market |-> target_market,
                    research_question |-> research_question]
        /\ search' = search_script
        /\ oracle' = oracle_script
        /\ ret' = done.ret
        /\ outbound' = done.outbound
        /\ shown' = done.shown
        /\ consulted' = done.consulted
        /\ UNCHANGED <<tavily_client, json_file, session>>

-----------------------------------------------------------------------------
(* Inputs of generate_research *)

\* the pieces oracle replies are put together from
COMPETITORS_WORD == <<"C", "o", "m", "p", "e", "t", "i", "t", "o", "r", "s", ":">>
PartPieces == {ONE_DOT, TWO_DOT, <<" ">>, <<"x">>}
NarrativePieces == {ONE_DOT, TWO_DOT, NEWLINE, <<"x">>, COMPETITORS_WORD, COMPETITION}

TextsOf(pieces, n) == {Flatten(ps) : ps \in SeqsUpTo(pieces, n)}

OracleError == [kind |-> "error", detail |-> <<"quota exceeded">>]
OracleReply(text) == [kind |-> "reply", text |-> text]
OracleWellFormed(A, B) == [kind |-> "wellformed", A |-> A, B |-> B]

SearchError == [kind |-> "error", detail |-> <<"timeout">>]
SearchResults ==
    { [answer |-> <<"w">>,
       sources |-> <<[url |-> <<"u">>], [url |-> <<>>], [title |-> <<"t">>]>>],
      [sources |-> <<[url |-> <<"u">>]>>],
      [answer |-> <<"w">>, sources |-> <<[url |-> NOT_A_STRING]>>],
      [answer |-> <<"w">>] }
SearchScripts ==
    {SearchError} \cup {[kind |-> "result", result |-> r] : r \in SearchResults}

\* the narrative parser: generate_research on a problem and an idea given in full,
\* for every reply of the oracle
InitNarrative ==
    /\ tavily_client = FALSE
    /\ json_file = [state |-> "missing"]
    /\ InitCall
    /\ NoSession

ReplyArrives(text) ==
    GenerateResearch({"s1"}, <<"a">>, <<"i">>, <<"m">>, <<"q">>, Unused, OracleReply(text))

WellFormedReplyArrives(A, B) ==
    GenerateResearch({"s1"}, <<"a">>, <<"i">>, <<"m">>, <<"q">>, Unused,
                     OracleWellFormed(A, B))

\* the lines replies are put together from
ReplyLines ==
    {<<>>, <<"x">>, <<" ", "x">>, COMPETITORS_WORD, <<"x", " ">> \o COMPETITION, ONE_DOT}

NextNarrative ==
    \/ /\ call = Idle
       /\ \E text \in TextsOf(NarrativePieces, MaxReplyPieces) : ReplyArrives(text)
    \/ /\ call = Idle
       /\ \E lines \in SeqsUpTo(ReplyLines, MaxReplyLines) :
              ReplyArrives(join(lines, NEWLINE))
    \/ /\ call = Idle
       /\ \E A \in TextsOf(PartPieces, MaxPartPieces),
             B \in TextsOf(PartPieces, MaxPartPieces) : WellFormedReplyArrives(A, B)

SpecNarrative == InitNarrative /\ [][NextNarrative]_vars

-----------------------------------------------------------------------------
(* generate_research on every combination of arguments, catalog and backends *)

ResearchScripts ==
    {OracleError} \cup
    {OracleReply(t) : t \in TextsOf(NarrativePieces, MaxResearchPieces)}

JsonFiles ==
    {[state |-> "missing"], [state |-> "malformed"], [state |-> "unreadable"]} \cup
    {[state |-> "ok", doc |-> doc] : doc \in SeqsUpTo(CatalogEntries, 1)}

InitResearch ==
    /\ tavily_client \in BOOLEAN
    /\ json_file \in JsonFiles
    /\ InitCall
    /\ NoSession

NextResearch ==
    /\ call = Idle
    /\ \E sdgs \in SUBSET Tags, problem \in {<<>>, <<"a">>, <<"b">>}, idea \in {<<>>, <<"i">>},
          target_market \in {<<>>, <<"m">>}, research_question \in {<<>>, <<"q">>} :
         \E search_script \in
                IF Reaches("search", sdgs, problem, idea, target_market, research_question,
                           Unused)
                THEN SearchScripts ELSE {Unused} :
           \E oracle_script \in
                  IF Reaches("completion", sdgs, problem, idea, target_market,
                             research_question, search_script)
                  THEN ResearchScripts ELSE {Unused} :
              GenerateResearch(sdgs, problem, idea, target_market, research_question,
                               search_script, oracle_script)

SpecResearch == InitResearch /\ [][NextResearch]_vars

-----------------------------------------------------------------------------
(* generate_student_questions, generate_sdg_questions *)

DOT == <<".">>

\* the parsing loop of the question generators from line k on; the loop raises
\* IndexError at a line that starts with a digit and holds no "."
RECURSIVE parse_questions_from(_, _, _)
parse_questions_from(lines, k, questions) ==
    IF k > Len(lines) THEN Return(questions)
    ELSE
        LET line == lines[k] IN
        IF strip(line) # <<>> /\ isdigit(line[1])
        THEN LET fields == split1(line, DOT) IN
             IF Len(fields) < 2 THEN Raise("IndexError")
             ELSE parse_questions_from(lines, k + 1, Append(questions, strip(fields[2])))
        ELSE parse_questions_from(lines, k + 1, questions)

\* response.text.strip() and the parsing loop
parse_questions(text) ==
    LET raw_questions == strip(text) IN
    parse_questions_from(split(raw_questions, NEWLINE), 1, <<>>)

\* the try block of the question generators: the list returned and the error shown
\* under the heading of the generator
questions_or_error(script, heading) ==
    IF script.kind = "error"
    THEN [ret |-> Return(<<>>), shown |-> <<Error(heading \o script.detail)>>]
    ELSE
        LET parsed == parse_questions(ReplyText(script)) IN
        IF parsed.kind = "raise"
        THEN [ret |-> Return(<<>>),
              shown |-> <<Error(heading \o <<"list index out of range">>)>>]
        ELSE [ret |-> parsed, shown |-> <<>>]

generate_student_questions(problem, idea, market_research, script) ==
    LET prompt == [to |-> "completion", template |-> "student", problem |-> problem,
                   idea |-> idea, market_research |-> market_research]
        done == questions_or_error(script, <<"Error generating questions: ">>)
    IN [ret |-> done.ret, outbound |-> <<prompt>>, shown |-> done.shown]

generate_sdg_questions(selected_sdgs, context, script) ==
    IF selected_sdgs = {}
    THEN [ret |-> Return(<<>>), outbound |-> <<>>, shown |-> <<>>]
    ELSE
        LET prompt == [to |-> "completion", template |-> "sdg",
                       selected_sdgs |-> selected_sdgs, context |-> context]
            done == questions_or_error(script, <<"Error generating SDG questions: ">>)
        IN [ret |-> done.ret, outbound |-> <<prompt>>, shown |-> done.shown]

\* one call of generate_student_questions
GenerateStudentQuestions(problem, idea, market_research, script) ==
    \E done \in {generate_student_questions(problem, idea, market_research, script)} :
        /\ call = Idle
        /\ script # Unused
        /\ call' = [fn |-> "generate_student_questions", problem |-> problem,
                    idea |-> idea, market_research |-> market_research]
        /\ oracle' = script
        /\ ret' = done.ret
        /\ outbound' = done.outbound
        /\ shown' = done.shown
        /\ UNCHANGED <<tavily_client, json_file, search, consulted, session>>

\* one call of generate_sdg_questions
GenerateSdgQuestions(selected_sdgs, context, script) ==
    /\ call = Idle
    /\ (script # Unused) <=> (selected_sdgs # {})
    /\ \E done \in {generate_sdg_questions(selected_sdgs, context, script)} :
        /\ call' = [fn |-> "generate_sdg_questions", selected_sdgs |-> selected_sdgs,
                    context |-> context]
        /\ oracle' = script
        /\ ret' = done.ret
        /\ outbound' = done.outbound
        /\ shown' = done.shown
        /\ UNCHANGED <<tavily_client, json_file, search, consulted, session>>

-----------------------------------------------------------------------------
(* Inputs of the question generators *)

\* "1." numbers a line, "2" is a digit with no "." after it
QuestionPieces == {ONE_DOT, <<"2">>, DOT, <<" ">>, NEWLINE, <<"x">>}

QuestionScripts ==
    {OracleError} \cup {OracleReply(t) : t \in TextsOf(QuestionPieces, MaxQuestionPieces)}

InitQuestions ==
    /\ tavily_client = FALSE
    /\ json_file = [state |-> "missing"]
    /\ InitCall
    /\ NoSession

NextQuestions ==
    \/ /\ call = Idle
       /\ \E script \in QuestionScripts :
              GenerateStudentQuestions(<<"a">>, <<"i">>, <<"m">>, script)
    \/ /\ call = Idle
       /\ \E selected_sdgs \in {{}, {"s1", "s2"}}, context \in {<<>>, <<"c">>},
             script \in QuestionScripts \cup {Unused} :
              GenerateSdgQuestions(selected_sdgs, context, script)

SpecQuestions == InitQuestions /\ [][NextQuestions]_vars

-----------------------------------------------------------------------------
(* evaluate_student_response *)

FEEDBACK_ERROR == <<"Error generating feedback: ">>

\* evaluate_student_response that trims the reply as the other generators do
evaluate_student_response_trimmed(student_input, script) ==
    LET full_prompt == [to |-> "completion", template |-> "rubric",
                        student_input |-> strip(student_input)]
    IN
    [ret |-> IF script.kind = "error"
             THEN Return(FEEDBACK_ERROR \o script.detail)
             ELSE Return(strip(ReplyText(script))),
     outbound |-> <<full_prompt>>,
     shown |-> <<>>]

evaluate_student_response(student_input, script) ==
    LET full_prompt == [to |-> "completion", template |-> "rubric",
                        student_input |-> strip(student_input)]
    IN
    [ret |-> IF script.kind = "error"
             THEN Return(FEEDBACK_ERROR \o script.detail)
             ELSE Return(ReplyText(script)),
     outbound |-> <<full_prompt>>,
     shown |-> <<>>]

\* one call of evaluate_student_response
EvaluateStudentResponse(student_input, script) ==
    \E done \in {evaluate_student_response(student_input, script)} :
        /\ call = Idle
        /\ script # Unused
        /\ call' = [fn |-> "evaluate_student_response", student_input |-> student_input]
        /\ oracle' = script
        /\ ret' = done.ret
        /\ outbound' = done.outbound
        /\ shown' = done.shown
        /\ UNCHANGED <<tavily_client, json_file, search, consulted, session>>

EvaluationPieces == {<<" ">>, NEWLINE, <<"x">>}

OracleErrors ==
    {OracleError, [kind |-> "error", detail |-> <<"response blocked">>]}

InitEvaluate ==
    /\ tavily_client = FALSE
    /\ json_file = [state |-> "missing"]
    /\ InitCall
    /\ NoSession

NextEvaluate ==
    /\ call = Idle
    /\ \E student_input \in TextsOf(EvaluationPieces, MaxEvaluationPieces),
          script \in OracleErrors \cup
                     {OracleReply(t) : t \in TextsOf(EvaluationPieces, MaxEvaluationPieces)} :
           EvaluateStudentResponse(student_input, script)

SpecEvaluate == InitEvaluate /\ [][NextEvaluate]_vars

-----------------------------------------------------------------------------
(* The four functions that call a backend, side by side *)

CallScripts == {OracleError, OracleReply(ONE_DOT \o <<"x">> \o NEWLINE \o <<"2">>)}

InitCalls ==
    /\ tavily_client \in BOOLEAN
    /\ json_file \in {[state |-> "missing"], [state |-> "ok", doc |-> <<>>]} \cup
                     {[state |-> "ok", doc |-> <<entry>>] : entry \in CatalogEntries}
    /\ InitCall
    /\ NoSession

NextCalls ==
    \/ NextResearch
    \/ /\ call = Idle
       /\ \E script \in CallScripts :
              GenerateStudentQuestions(<<"a">>, <<"i">>, <<"m">>, script)
    \/ /\ call = Idle
       /\ \E selected_sdgs \in SUBSET Tags, script \in CallScripts \cup {Unused} :
              GenerateSdgQuestions(selected_sdgs, <<"c">>, script)
    \/ /\ call = Idle
       /\ \E student_input \in {<<>>, <<"x">>}, script \in CallScripts :
              EvaluateStudentResponse(student_input, script)

SpecCalls == InitCalls /\ [][NextCalls]_vars

-----------------------------------------------------------------------------
(* main: the Streamlit script.  Streamlit runs main() from its first line on
   every interaction; a button is True only in the run its click starts; a
   widget with a key returns the value the front end holds for that key once it
   has one, and its value argument otherwise; st.rerun() ends the run and
   starts another one at once; the values of widgets a completed run did not
   draw are dropped.  The sidebar's filter is left at "All". *)

SDG_LIST == <<"s1", "s2", "s3">>

\* lines 11-16: the key of the environment, or else the key written in the code
GEMINI_API_KEY ==
    IF gemini_env THEN <<"the key of the environment">> ELSE <<"the key written in both.py">>

\* 'key in st.session_state', st.session_state[key] = value, del st.session_state[key]
has(state, key) == key \in DOMAIN state
put(state, key, value) ==
    [k \in DOMAIN state \cup {key} |-> IF k = key THEN value ELSE state[k]]
del(state, key) == [k \in DOMAIN state \ {key} |-> state[k]]

\* a click on no button
NoClick == [button |-> "none"]

\* st.checkbox(sdg, value=value, key=...): the value held for the key, or else value
checkbox(states, sdg, value) == IF sdg \in DOMAIN states THEN states[sdg] ELSE value

\* the checkbox loop of a tag panel: every checkbox is drawn, disabled when the
\* selection stored by the run before has 2 tags and not this one, and the tags
\* of the checked ones are collected
tag_panel(stored, states, all_sdgs) ==
    LET is_checked == [sdg \in all_sdgs |-> checkbox(states, sdg, sdg \in stored)] IN
    [selected |-> {sdg \in all_sdgs : is_checked[sdg]},
     states |-> is_checked,
     enabled |-> {sdg \in all_sdgs : ~(Cardinality(stored) >= 2 /\ sdg \notin stored)}]

FILL_MARKET_AND_QUESTION == <<"Please fill in Target Market and Research Question">>
SELECT_ONE_SDG == <<"Please select at least one SDG">>
SELECT_MAX_2_SDGS == <<"Please select maximum 2 SDGs only">>
PROVIDE_PROBLEM_AND_IDEA == <<"Please provide both Problem Statement and Solution Idea">>
FILL_ALL_FIELDS == <<"Please fill in all fields (Problem, Idea, and Market Research)">>
ENTER_RESPONSE == <<"Please enter your response before clicking the button.">>
SET_GEMINI_API_KEY ==
    <<"Please set your GEMINI_API_KEY in your .env file or update the code with your API key">>
OK == <<>>

\* the validation of the market-research action without its last test
validate_research_any_problem(selected_sdgs, target_market, research_question, problem, idea) ==
    IF target_market = <<>> \/ research_question = <<>> THEN FILL_MARKET_AND_QUESTION
    ELSE IF selected_sdgs = {} THEN SELECT_ONE_SDG
    ELSE IF Cardinality(selected_sdgs) > 2 THEN SELECT_MAX_2_SDGS
    ELSE OK

\* the validation of the market-research action: the message it shows, OK when
\* the inputs pass
validate_research(selected_sdgs, target_market, research_question, problem, idea) ==
    IF target_market = <<>> \/ research_question = <<>> THEN FILL_MARKET_AND_QUESTION
    ELSE IF selected_sdgs = {} THEN SELECT_ONE_SDG
    ELSE IF Cardinality(selected_sdgs) > 2 THEN SELECT_MAX_2_SDGS
    ELSE IF problem = <<>> \/ idea = <<>> THEN PROVIDE_PROBLEM_AND_IDEA
    ELSE OK

\* what a part of the script leaves behind when it calls nothing and shows nothing
Quiet(state) ==
    [session_state |-> state, shown |-> <<>>, outbound |-> <<>>, consulted |-> <<>>,
     raised |-> FALSE, rerun |-> FALSE]

\* market_research_action that drops the stored result when there is no new one
market_research_action_forgets(state, click, search_script, oracle_script) ==
    LET selected_sdgs == get(state, "selected_sdgs_research", {})
        message == validate_research(selected_sdgs, click.target_market,
                                     click.research_question, click.problem, click.idea)
    IN
    IF message # OK
    THEN [Quiet(del(state, "research_results")) EXCEPT !.shown = <<Error(message)>>]
    ELSE
        The({[session_state |-> IF results.ret.kind = "return"
                                THEN put(state, "research_results", results.ret.value)
                                ELSE del(state, "research_results"),
              shown |-> results.shown, outbound |-> results.outbound,
              consulted |-> results.consulted,
              raised |-> results.ret.kind = "raise", rerun |-> FALSE] :
                results \in {generate_research(selected_sdgs, click.problem, click.idea,
                                                click.target_market,
                                                click.research_question, tavily_client,
                                                search_script, oracle_script)}})

\* the "Generate Market Research" button: validation, generate_research, and the
\* result stored when there is one
market_research_action(state, click, search_script, oracle_script) ==
    LET selected_sdgs == get(state, "selected_sdgs_research", {})
        message == validate_research(selected_sdgs, click.target_market,
                                     click.research_question, click.problem, click.idea)
    IN
    IF message # OK
    THEN [Quiet(state) EXCEPT !.shown = <<Error(message)>>]
    ELSE
        The({[session_state |-> IF results.ret.kind = "return"
                                THEN put(state, "research_results", results.ret.value)
                                ELSE state,
              shown |-> results.shown, outbound |-> results.outbound,
              consulted |-> results.consulted,
              raised |-> results.ret.kind = "raise", rerun |-> FALSE] :
                results \in {generate_research(selected_sdgs, click.problem, click.idea,
                                                click.target_market,
                                                click.research_question, tavily_client,
                                                search_script, oracle_script)}})

\* the tags the catalog offers
all_sdgs_of(problems) == UNION {get(problems[k], "sdgs", {}) : k \in 1..Len(problems)}

\* the market research tab
tab1(state, states, click, search_script, oracle_script) ==
    The({
      The({
        The({
          (IF click.button = "Generate Market Research"
           THEN market_research_action(chosen, click, search_script, oracle_script)
           ELSE Quiet(chosen)) @@
          [family |-> family, states |-> panel.states, enabled |-> panel.enabled,
           buttons |-> {"Generate Market Research"}] :
          chosen \in {put(state, "selected_sdgs_research", panel.selected)}}) :
        panel \in {tag_panel(get(state, "selected_sdgs_research", {}), states[family],
                             IF problems # <<>>
                             THEN all_sdgs_of(problems) ELSE Range(SDG_LIST))}}) :
      problems \in {load_problems.value},
      family \in {IF load_problems.value # <<>>
                  THEN "sdg_research" ELSE "sdg_research_manual"}})

\* store_questions that stores the list and leaves the metadata as they are
store_questions_list_only(state, questions, metadata) ==
    IF questions # <<>> THEN put(state, "generated_questions", questions) ELSE state

\* 'if questions:' and the two assignments under it: the list and its metadata are
\* stored together when the generator returned a question
store_questions(state, questions, metadata) ==
    IF questions # <<>>
    THEN put(put(state, "generated_questions", questions), "question_metadata", metadata)
    ELSE state

\* what a question generator leaves behind, the list stored with its metadata
generated(state, done, metadata) ==
    The({[session_state |-> store_questions(state, questions.ret.value, metadata),
          shown |-> questions.shown, outbound |-> questions.outbound,
          consulted |-> <<>>, raised |-> FALSE, rerun |-> FALSE] :
            questions \in {done}})

\* the "Generate Questions from Research" button
questions_from_research(state, oracle_script) ==
    LET results == state.research_results IN
    generated(state,
              generate_student_questions(results.problem, results.idea,
                                         results.market_research, oracle_script),
              [type |-> "market_research", problem |-> results.problem,
               idea |-> results.idea, market_research |-> results.market_research])

\* the "Generate Questions from Manual Input" button
questions_from_manual_input(state, click, oracle_script) ==
    IF click.manual_problem # <<>> /\ click.manual_idea # <<>> /\ click.manual_research # <<>>
    THEN generated(state,
                   generate_student_questions(click.manual_problem, click.manual_idea,
                                              click.manual_research, oracle_script),
                   [type |-> "manual_input", problem |-> click.manual_problem,
                    idea |-> click.manual_idea,
                    market_research |-> click.manual_research])
    ELSE [Quiet(state) EXCEPT !.shown = <<Error(FILL_ALL_FIELDS)>>]

\* the "Generate SDG Questions" button
sdg_questions_action(state, click, oracle_script) ==
    LET selected_question_sdgs == get(state, "selected_sdgs_questions", {}) IN
    IF selected_question_sdgs = {}
    THEN [Quiet(state) EXCEPT !.shown = <<Error(SELECT_ONE_SDG)>>]
    ELSE IF Cardinality(selected_question_sdgs) > 2
    THEN [Quiet(state) EXCEPT !.shown = <<Error(SELECT_MAX_2_SDGS)>>]
    ELSE generated(state,
                   generate_sdg_questions(selected_question_sdgs, click.sdg_context,
                                          oracle_script),
                   [type |-> "sdg_based", selected_sdgs |-> selected_question_sdgs,
                    context |-> click.sdg_context])

\* the upper half of the question tab: the radio and the branch it selects
question_source(state, states, question_mode, click, oracle_script) ==
    IF question_mode = BASED_ON_MARKET_RESEARCH
    THEN IF has(state, "research_results")
         THEN (IF click.button = "Generate Questions from Research"
               THEN questions_from_research(state, oracle_script)
               ELSE Quiet(state)) @@
              [states |-> EmptyDict, enabled |-> {},
               buttons |-> {"Generate Questions from Research"}]
         ELSE (IF click.button = "Generate Questions from Manual Input"
               THEN questions_from_manual_input(state, click, oracle_script)
               ELSE Quiet(state)) @@
              [states |-> EmptyDict, enabled |-> {},
               buttons |-> {"Generate Questions from Manual Input"}]
    ELSE
        LET panel == tag_panel(get(state, "selected_sdgs_questions", {}), states,
                               Range(SDG_LIST))
            chosen == put(state, "selected_sdgs_questions", panel.selected)
        IN
        (IF click.button = "Clear SDG Selection"
         THEN [Quiet(put(chosen, "selected_sdgs_questions", {})) EXCEPT !.rerun = TRUE]
         ELSE IF click.button = "Generate SDG Questions"
         THEN sdg_questions_action(chosen, click, oracle_script)
         ELSE Quiet(chosen)) @@
        [states |-> panel.states, enabled |-> panel.enabled,
         buttons |-> {"Clear SDG Selection", "Generate SDG Questions"}]

\* edited_questions_of that takes the questions as stored, not as edited
edited_questions_of_stored(questions, fields) == questions

\* st.text_input(value=question, key=f"question_{i}") for every question of the list
edited_questions_of(questions, fields) ==
    [i \in 1..Len(questions) |-> IF i <= Len(fields) THEN fields[i] ELSE questions[i]]

\* the lower half of the question tab: the list in its text fields, "Add Custom
\* Question" and "Clear Questions"
question_list(state, fields, click) ==
    IF ~has(state, "generated_questions")
    THEN Quiet(state) @@ [fields |-> <<>>, buttons |-> {}]
    ELSE
        LET edited_questions == edited_questions_of(state.generated_questions, fields)
            edited == put(state, "generated_questions", edited_questions)
        IN
        (IF click.button = "Add Custom Question"
         THEN IF strip(click.custom_question) # <<>>
              THEN [Quiet(put(edited, "generated_questions",
                              Append(edited_questions, strip(click.custom_question))))
                        EXCEPT !.rerun = TRUE]
              ELSE Quiet(edited)
         ELSE IF click.button = "Clear Questions"
         THEN [Quiet(del(del(edited, "generated_questions"), "question_metadata"))
                   EXCEPT !.rerun = TRUE]
         ELSE Quiet(edited)) @@
        [fields |-> edited_questions,
         buttons |-> {"Add Custom Question", "Clear Questions"}]

\* the market fit evaluator tab
tab3(state, click, oracle_script) ==
    (IF click.button = "Give me some feedback"
     THEN IF strip(click.student_input) = <<>>
          THEN [Quiet(state) EXCEPT !.shown = <<Warning(ENTER_RESPONSE)>>]
          ELSE [Quiet(state) EXCEPT
                    !.outbound = evaluate_student_response(click.student_input,
                                                           oracle_script).outbound]
     ELSE Quiet(state)) @@
    [buttons |-> {"Give me some feedback"}]

\* a run that ends before its last line (st.stop, st.rerun, an exception): the
\* values of the widgets are kept as they came in
Unfinished(part, states, before, stopped) ==
    [session_state |-> part.session_state, widgets |-> states,
     rendered |-> [NothingRendered EXCEPT !.stopped = stopped],
     shown |-> before.shown \o part.shown,
     outbound |-> before.outbound \o part.outbound,
     consulted |-> before.consulted \o part.consulted,
     raised |-> part.raised, rerun |-> part.rerun]

\* the parts of a run one after the other
Then(before, part) ==
    [session_state |-> part.session_state,
     shown |-> before.shown \o part.shown,
     outbound |-> before.outbound \o part.outbound,
     consulted |-> before.consulted \o part.consulted,
     raised |-> part.raised, rerun |-> part.rerun]

\* one run of main() from the check of the key to the last tab
main_run(state, states, click, search_script, oracle_script) ==
    IF GEMINI_API_KEY = <<>>
    THEN Unfinished([Quiet(state) EXCEPT !.shown = <<Error(SET_GEMINI_API_KEY)>>],
                    states, Quiet(state), TRUE)
    ELSE
        LET sidebar == [Quiet(state) EXCEPT !.shown = load_problems.shown,
                                            !.consulted = <<"load_problems">>]
        IN
        The({
          IF one.raised THEN Unfinished(one, states, sidebar, TRUE)
          ELSE The({
            IF source.rerun THEN Unfinished(source, states, Then(sidebar, one), FALSE)
            ELSE The({
              IF list.rerun
              THEN Unfinished(list, states, Then(Then(sidebar, one), source), FALSE)
              ELSE The({
                Then(Then(Then(Then(sidebar, one), source), list), three) @@
                [widgets |->
                    [sdg_research |->
                         IF one.family = "sdg_research" THEN one.states ELSE EmptyDict,
                     sdg_research_manual |->
                         IF one.family = "sdg_research_manual"
                         THEN one.states ELSE EmptyDict,
                     sdg_questions |-> source.states,
                     question |-> list.fields,
                     question_mode |-> states.question_mode],
                 rendered |->
                    [stopped |-> FALSE,
                     buttons |-> one.buttons \cup source.buttons \cup list.buttons
                                     \cup three.buttons,
                     questions |-> Len(list.fields),
                     enabled |->
                        [sdg_research |->
                             IF one.family = "sdg_research" THEN one.enabled ELSE {},
                         sdg_research_manual |->
                             IF one.family = "sdg_research_manual"
                             THEN one.enabled ELSE {},
                         sdg_questions |-> source.enabled]]] :
                three \in {tab3(list.session_state, click, oracle_script)}}) :
              list \in {question_list(source.session_state, states.question, click)}}) :
            source \in {question_source(one.session_state, states.sdg_questions,
                                        states.question_mode, click, oracle_script)}}) :
          one \in {tab1(state, states, click, search_script, oracle_script)}})

\* main() on an interaction: the run the interaction starts and, when that run
\* calls st.rerun(), the run that follows it
main(state, states, click, search_script, oracle_script) ==
    The({IF first.rerun
         THEN [main_run(first.session_state, first.widgets, NoClick, Unused, Unused)
                   EXCEPT !.shown = first.shown \o @,
                          !.outbound = first.outbound \o @,
                          !.consulted = first.consulted \o @]
         ELSE first :
            first \in {main_run(state, states, click, search_script, oracle_script)}})

\* a backend that is not meant to be reached fails if it is reached
Scripted(script) == IF script = Unused THEN [kind |-> "error", detail |-> <<>>] ELSE script

\* the page reacts to the user: the front end holds the values states, the button
\* of click (if any) was pressed, and main() runs; a backend's script is Unused
\* exactly when the run does not reach that backend
Interaction(event, states, click, search_script, oracle_script) ==
    \E done \in {main(session_state, states, click, Scripted(search_script),
                      Scripted(oracle_script))} :
        /\ (search_script # Unused) <=> Issued(done.outbound, "search")
        /\ (oracle_script # Unused) <=> Issued(done.outbound, "completion")
        /\ call' = [fn |-> "main", event |-> event, click |-> click]
        /\ search' = search_script
        /\ oracle' = oracle_script
        /\ ret' = IF done.raised THEN Raise("Exception") ELSE ReturnNone
        /\ outbound' = done.outbound
        /\ shown' = done.shown
        /\ consulted' = done.consulted
        /\ session_state' = done.session_state
        /\ widgets' = done.widgets
        /\ rendered' = done.rendered
        /\ UNCHANGED <<tavily_client, json_file, gemini_env>>

\* the browser opens the page
Open ==
    /\ call = Idle
    /\ Interaction([widget |-> "page"], widgets, NoClick, Unused, Unused)

\* the user ticks or unticks a checkbox the page shows enabled
Toggle(family, sdg) ==
    /\ call # Idle
    /\ sdg \in rendered.enabled[family]
    /\ Interaction([widget |-> "checkbox", family |-> family, sdg |-> sdg],
                   [widgets EXCEPT ![family][sdg] = ~@], NoClick, Unused, Unused)

\* the user picks the other option of the radio
SelectMode(question_mode) ==
    /\ call # Idle
    /\ ~rendered.stopped
    /\ question_mode # widgets.question_mode
    /\ Interaction([widget |-> "radio", question_mode |-> question_mode],
                   [widgets EXCEPT !.question_mode = question_mode],
                   NoClick, Unused, Unused)

\* the user rewrites the text of question field i
EditQuestion(i, text) ==
    /\ call # Idle
    /\ i \in 1..rendered.questions
    /\ text # widgets.question[i]
    /\ Interaction([widget |-> "text_input", i |-> i, text |-> text],
                   [widgets EXCEPT !.question[i] = text], NoClick, Unused, Unused)

\* the user presses a button the page shows
Click(click, search_script, oracle_script) ==
    /\ call # Idle
    /\ click.button \in rendered.buttons
    /\ Interaction([widget |-> "button"], widgets, click, search_script, oracle_script)

-----------------------------------------------------------------------------
(* The market research tab in a session *)

InitPage ==
    /\ InitCall
    /\ session_state = EmptyDict
    /\ widgets = NoWidgets
    /\ rendered = NothingRendered

\* a catalog whose one entry has two tags
SmallCatalog ==
    [state |-> "ok",
     doc |-> <<[problem |-> <<"a", "B">>, ideas |-> << <<"i">> >>, sdgs |-> {"s1", "s2"}]>>]

\* what the user may have in the form when the button is pressed
ResearchClicks ==
    {[button |-> "Generate Market Research", target_market |-> target_market,
      research_question |-> research_question, problem |-> problem, idea |-> idea] :
        target_market \in {<<>>, <<"m">>}, research_question \in {<<>>, <<"q">>},
        problem \in {<<>>, <<"a">>}, idea \in {<<>>, <<"i">>}}

PageSearchScripts ==
    {SearchError,
     [kind |-> "result", result |-> [answer |-> <<"w">>, sources |-> <<[url |-> <<"u">>]>>]],
     [kind |-> "result", result |-> [answer |-> <<"w">>, sources |-> <<[url |-> NOT_A_STRING]>>]]}

PageOracleScripts == {OracleError, OracleReply(<<"x">>)}

\* with a search client and no catalog, or with a catalog and no search client
InitMarketResearch ==
    /\ gemini_env \in BOOLEAN
    /\ \/ tavily_client = TRUE /\ json_file = [state |-> "missing"]
       \/ tavily_client = FALSE /\ json_file = SmallCatalog
    /\ InitPage

NextMarketResearch ==
    \/ Open
    \/ \E family \in {"sdg_research", "sdg_research_manual"}, sdg \in Range(SDG_LIST) :
           Toggle(family, sdg)
    \/ /\ call # Idle
       /\ \E click \in ResearchClicks :
            \E search_script \in PageSearchScripts \cup {Unused},
               oracle_script \in PageOracleScripts \cup {Unused} :
                 Click(click, search_script, oracle_script)

SpecMarketResearch == InitMarketResearch /\ [][NextMarketResearch]_vars

-----------------------------------------------------------------------------
(* The question tab in a session *)

\* a form of the market research tab that passes validation
FilledResearchForm ==
    [button |-> "Generate Market Research", target_market |-> <<"m">>,
     research_question |-> <<"q">>, problem |-> <<"a">>, idea |-> <<"i">>]

\* the oracle fails, replies without a numbered line, with one, with two
QuestionTabScripts ==
    {OracleError,
     OracleReply(<<"x">>),
     OracleReply(ONE_DOT \o <<"x">>),
     OracleReply(ONE_DOT \o <<"x">> \o NEWLINE \o TWO_DOT \o <<"y">>)}

ManualClicks ==
    {[button |-> "Generate Questions from Manual Input", manual_problem |-> <<"a">>,
      manual_idea |-> <<"i">>, manual_research |-> manual_research] :
        manual_research \in {<<>>, <<"r">>}}

SdgClick == [button |-> "Generate SDG Questions", sdg_context |-> <<"c">>]

AddClicks ==
    {[button |-> "Add Custom Question", custom_question |-> custom_question] :
        custom_question \in {<<" ">>, <<" ", "c">>}}

InitQuestionTab ==
    /\ gemini_env = TRUE
    /\ tavily_client = FALSE
    /\ json_file = [state |-> "missing"]
    /\ InitPage

NextQuestionTab ==
    \/ Open
    \/ \E family \in {"sdg_research_manual", "sdg_questions"} : Toggle(family, "s1")
    \/ \E question_mode \in {BASED_ON_MARKET_RESEARCH, BASED_ON_SDGS_ONLY} :
           SelectMode(question_mode)
    \/ Click(FilledResearchForm, Unused, OracleReply(<<"x">>))
    \/ \E script \in QuestionTabScripts :
           Click([button |-> "Generate Questions from Research"], Unused, script)
    \/ \E click \in ManualClicks, script \in QuestionTabScripts \cup {Unused} :
           Click(click, Unused, script)
    \/ \E script \in QuestionTabScripts \cup {Unused} : Click(SdgClick, Unused, script)
    \/ \E i \in 1..rendered.questions : EditQuestion(i, <<"e">>)
    \/ /\ call # Idle
       /\ Len(get(session_state, "generated_questions", <<>>)) < MaxQuestions
       /\ \E click \in AddClicks : Click(click, Unused, Unused)
    \/ Click([button |-> "Clear Questions"], Unused, Unused)

SpecQuestionTab == InitQuestionTab /\ [][NextQuestionTab]_vars

-----------------------------------------------------------------------------
(* The tag panels in a session *)

InitTagPanels ==
    /\ gemini_env = TRUE
    /\ tavily_client = FALSE
    /\ json_file \in {[state |-> "missing"], SmallCatalog}
    /\ InitPage

NextTagPanels ==
    \/ Open
    \/ \E family \in {"sdg_research", "sdg_research_manual", "sdg_questions"},
          sdg \in Range(SDG_LIST) : Toggle(family, sdg)
    \/ \E question_mode \in {BASED_ON_MARKET_RESEARCH, BASED_ON_SDGS_ONLY} :
           SelectMode(question_mode)

SpecTagPanels == InitTagPanels /\ [][NextTagPanels]_vars

-----------------------------------------------------------------------------
(* The tag panels with the button that clears the question panel *)

ClearSdgClick == [button |-> "Clear SDG Selection"]

NextClearSelection ==
    \/ Open
    \/ \E family \in {"sdg_research_manual", "sdg_questions"}, sdg \in Range(SDG_LIST) :
           Toggle(family, sdg)
    \/ \E question_mode \in {BASED_ON_MARKET_RESEARCH, BASED_ON_SDGS_ONLY} :
           SelectMode(question_mode)
    \/ Click(ClearSdgClick, Unused, Unused)

SpecClearSelection == InitQuestionTab /\ [][NextClearSelection]_vars

-----------------------------------------------------------------------------
(* C1 *)

\* two characters that differ at most in case
SameLetter(c, d) == c = d \/ {c, d} \in {{"a", "A"}, {"b", "B"}, {"c", "C"}}

\* needle occurs in hay when case is ignored
OccursIgnoringCase(needle, hay) ==
    \E i \in 1..Len(hay) :
        /\ i + Len(needle) - 1 <= Len(hay)
        /\ \A j \in 1..Len(needle) : SameLetter(hay[i + j - 1], needle[j])

\* the entry meets the matching condition of the claim
Qualifies(e, tags, problem, idea) ==
    /\ "sdgs" \in DOMAIN e /\ tags \cap e.sdgs # {}
    /\ problem # <<>>
    /\ OccursIgnoringCase(problem, e.problem)
    /\ idea # <<>> => "ideas" \in DOMAIN e /\ \E n \in 1..Len(e.ideas) : e.ideas[n] = idea

\* every entry is a CatalogEntry of the data model: it has its problem text
HasProblemTexts(problems) == \A k \in 1..Len(problems) : "problem" \in DOMAIN problems[k]

-----------------------------------------------------------------------------
(* C2, C3, C4: the narrative parser *)

\* the place of the first occurrence of sub in s, 0 when there is none
FirstOccurrence(sub, s) ==
    LET at == {i \in 1..Len(s) :
                  i + Len(sub) - 1 <= Len(s) /\ SubSeq(s, i, i + Len(sub) - 1) = sub}
    IN IF at = {} THEN 0 ELSE CHOOSE i \in at : \A j \in at : i <= j

Occurs(sub, s) == FirstOccurrence(sub, s) # 0

\* generate_research returned a result built from a reply of the oracle
Replied ==
    /\ call.fn = "generate_research"
    /\ oracle.kind \in {"reply", "wellformed"}
    /\ ret.kind = "return"

C3_SplitAtFirstTwoDot ==
    Replied =>
        LET text == strip(ReplyText(oracle))
            at == FirstOccurrence(TWO_DOT, text)
            before == SubSeq(text, 1, at - 1)
            after == SubSeq(text, at + 2, Len(text))
        IN
        (Occurs(ONE_DOT, text) /\ Occurs(TWO_DOT, text)) =>
            /\ ret.value.competitor_insights = strip(after)
            /\ ret.value.market_research =
                   strip(IF FirstOccurrence(ONE_DOT, before) = 1
                         THEN SubSeq(before, 3, Len(before))
                         ELSE before)

\* the line names a competitor: "competitor" or "competition" in any case
NamesCompetitor(line) ==
    OccursIgnoringCase(COMPETITOR, line) \/ OccursIgnoringCase(COMPETITION, line)

\* C4: when the reply does not hold both "1." and "2.", the lines before the first
\* line naming a competitor make up market_research, that line and all lines after
\* it make up competitor_insights (each joined by newlines and trimmed; the fixed
\* sentinel when no line names a competitor), and every line is in exactly one of
\* the two buckets.
C4_FallbackSplit ==
    Replied =>
        LET text == strip(ReplyText(oracle))
            lines == split(text, NEWLINE)
            naming == {k \in 1..Len(lines) : NamesCompetitor(lines[k])}
            first == IF naming = {} THEN Len(lines) + 1
                     ELSE CHOOSE k \in naming : \A m \in naming : k <= m
            before == SubSeq(lines, 1, first - 1)
            after == SubSeq(lines, first, Len(lines))
            sections == classify_lines(lines, 1, "market", <<>>, <<>>)
        IN
        ~(Occurs(ONE_DOT, text) /\ Occurs(TWO_DOT, text)) =>
            /\ sections.market_research_lines = before
            /\ sections.competitor_lines = after
            /\ ret.value.market_research = strip(join(before, NEWLINE))
            /\ ret.value.competitor_insights =
                   IF naming = {} THEN NOT_SEPARATED ELSE strip(join(after, NEWLINE))

\* a reply without both markers: a line, then a line naming competitors, then a
\* line that names none and still lands in competitor_insights
C4_Witness ==
    /\ Replied
    /\ ReplyText(oracle) = <<"x">> \o NEWLINE \o COMPETITORS_WORD \o NEWLINE \o <<"x">>
    /\ ret.value.market_research = <<"x">>
    /\ ret.value.competitor_insights = COMPETITORS_WORD \o NEWLINE \o <<"x">>

-----------------------------------------------------------------------------
(* C5, C6: the question parsers *)

\* a question generator returned after the oracle replied
QuestionsReplied ==
    /\ call.fn \in {"generate_student_questions", "generate_sdg_questions"}
    /\ oracle.kind = "reply"

\* the first character of the line, once stripped, is a digit
NumberedOnceStripped(line) == strip(line) # <<>> /\ isdigit(strip(line)[1])

\* the text after the first "." of the line, stripped
AfterFirstDot(line) == strip(SubSeq(line, FirstOccurrence(DOT, line) + 1, Len(line)))

\* the questions of the chosen lines, in line order
QuestionsOf(chosen) == [k \in 1..Len(chosen) |-> AfterFirstDot(chosen[k])]

\* C5: the list returned has exactly one entry per line whose first character
\* after stripping is a digit, namely the stripped text after the line's first
\* ".", in line order (stated for the replies whose numbered lines all hold a ".").
C5_OneEntryPerNumberedLine ==
    QuestionsReplied =>
        LET lines == split(oracle.text, NEWLINE) IN
        (\A k \in 1..Len(lines) : NumberedOnceStripped(lines[k]) => Occurs(DOT, lines[k])) =>
            ret = Return(QuestionsOf(SelectSeq(lines, NumberedOnceStripped)))

\* the line starts with a digit and holds a "."
WellFormedNumbered(line) == line # <<>> /\ isdigit(line[1]) /\ Occurs(DOT, line)

\* C6: for every reply of the oracle the generator shows no error and returns the
\* questions of all lines that start with a digit and hold a ".", whatever the
\* other lines are.
C6_MalformedLineCostsOnlyItself ==
    QuestionsReplied =>
        /\ shown = <<>>
        /\ ret = Return(QuestionsOf(SelectSeq(split(strip(oracle.text), NEWLINE),
                                           WellFormedNumbered)))

-----------------------------------------------------------------------------
(* C7: the rubric evaluator *)

\* C7: evaluate_student_response returns the oracle's reply as it is, returns
\* "Error generating feedback: " followed by the failure detail when the oracle
\* fails, and never raises.
C7_PassThrough ==
    call.fn = "evaluate_student_response" =>
        /\ ret.kind = "return"
        /\ oracle.kind = "reply" => ret.value = oracle.text
        /\ oracle.kind = "error" => ret.value = FEEDBACK_ERROR \o oracle.detail
        /\ shown = <<>>

\* a reply with blanks around it comes back untrimmed
C7_Witness ==
    /\ call.fn = "evaluate_student_response"
    /\ oracle.kind = "reply"
    /\ oracle.text = <<" ", "x", "\n">>
    /\ ret = Return(<<" ", "x", "\n">>)

-----------------------------------------------------------------------------
(* C8, C9, C10: generate_research and its backends *)

\* the places of the calls to the backend in the log
CallsTo(backend) == {n \in 1..Len(outbound) : outbound[n].to = backend}

\* C8: without a search backend a result has the "no web search available"
\* sentinel and no sources, and no search is issued; when the search call fails the
\* function still returns a result, with the distinct "search API error" sentinel
\* and no sources, after exactly one search call; in both cases exactly one
\* completion call follows.
C8_SearchDegrades ==
    call.fn = "generate_research" =>
        /\ (~tavily_client /\ ret.kind = "return") =>
              /\ ret.value.web_summary = NO_WEB_SEARCH
              /\ ret.value.web_sources = <<>>
              /\ CallsTo("search") = {}
              /\ CallsTo("completion") = {1}
        /\ search.kind = "error" =>
              /\ tavily_client
              /\ ret.kind = "return"
              /\ ret.value.web_summary = SEARCH_ERROR
              /\ ret.value.web_summary # NO_WEB_SEARCH
              /\ ret.value.web_sources = <<>>
              /\ CallsTo("search") = {1}
              /\ CallsTo("completion") = {2}

\* the search failed, a warning was shown and the completion call was still made
C8_Witness ==
    /\ call.fn = "generate_research"
    /\ search.kind = "error"
    /\ oracle.kind = "reply"
    /\ ret.kind = "return"
    /\ ret.value.web_summary = SEARCH_ERROR
    /\ Len(outbound) = 2
    /\ shown = <<Warning(<<"Web search error: ">> \o search.detail)>>

\* C9: with search disabled and problem, idea, target market and research
\* question all non-empty, generate_research issues the completion call and
\* returns a result whose market_research and competitor_insights are both
\* non-empty, whether the oracle fails or replies with any non-empty text (here
\* even: with any text that is not blank).
C9_NarrativeNeverEmpty ==
    (/\ call.fn = "generate_research"
     /\ ~tavily_client
     /\ call.problem # <<>> /\ call.idea # <<>>
     /\ call.target_market # <<>> /\ call.research_question # <<>>
     /\ oracle.kind = "reply" => strip(oracle.text) # <<>>) =>
        /\ CallsTo("completion") # {}
        /\ ret.kind = "return"
        /\ ret.value.market_research # <<>>
        /\ ret.value.competitor_insights # <<>>

\* C10: when the completion call fails, generate_research returns a result whose
\* market_research and competitor_insights are the two error sentinels and whose
\* other fields are the values put into the prompt before the call.
C10_OracleFailureDegrades ==
    (call.fn = "generate_research" /\ oracle.kind = "error") =>
        /\ ret.kind = "return"
        /\ ret.value.market_research = MARKET_ERROR
        /\ ret.value.competitor_insights = COMPETITOR_ERROR
        /\ LET prompt == outbound[Len(outbound)] IN
           /\ prompt.to = "completion"
           /\ ret.value.web_summary = prompt.web_summary
           /\ ret.value.web_sources = prompt.source_urls
           /\ ret.value.problem = prompt.problem
           /\ ret.value.idea = prompt.idea
           /\ ret.value.sdgs = call.sdgs
           /\ ret.value.target_market = call.target_market
           /\ ret.value.research_question = call.research_question
        /\ DOMAIN ret.value = {"web_summary", "market_research", "competitor_insights",
                               "web_sources", "problem", "idea", "sdgs", "target_market",
                               "research_question"}

\* the oracle failed after a successful search for a problem taken from the catalog
C10_Witness ==
    /\ call.fn = "generate_research"
    /\ oracle.kind = "error"
    /\ search.kind = "result"
    /\ call.idea = <<>>
    /\ ret.kind = "return"
    /\ ret.value.market_research = MARKET_ERROR
    /\ ret.value.competitor_insights = COMPETITOR_ERROR
    /\ ret.value.web_sources = << <<"u">> >>
    /\ ret.value.idea = <<"i">>
    /\ shown = <<Error(<<"AI model error: ">> \o oracle.detail)>>

-----------------------------------------------------------------------------
(* C11: errors leaving generate_research *)

\* C11: for every catalog, including entries whose ideas list is empty or that
\* lack a problem field, and every combination of tags, problem, idea, target
\* market and research question, generate_research ends by returning a result or
\* the no-result value, never by raising.
C11_NeverRaises ==
    call.fn = "generate_research" => ret.kind \in {"return", "none"}

-----------------------------------------------------------------------------
(* C12: the credential of the completion oracle *)

\* C12: when the credential of the completion oracle is absent from the
\* environment, main() shows the blocking message and stops before it draws any
\* tab, and no completion call is made in the session.
C12_HaltsWithoutCredential ==
    (call.fn = "main" /\ ~gemini_env) =>
        /\ rendered.stopped
        /\ rendered.buttons = {}
        /\ shown = <<Error(SET_GEMINI_API_KEY)>>
        /\ ~Issued(outbound, "completion")

-----------------------------------------------------------------------------
(* C13: the validation of the market-research action *)

\* the last run of main() was started by the "Generate Market Research" button
ResearchRequested ==
    call.fn = "main" /\ call.click.button = "Generate Market Research"

\* the form and the stored selection pass the validation of the claim
ValidRequest ==
    /\ call.click.target_market # <<>> /\ call.click.research_question # <<>>
    /\ call.click.problem # <<>> /\ call.click.idea # <<>>
    /\ Cardinality(session_state.selected_sdgs_research) \in 1..2

ValidationMessages ==
    {FILL_MARKET_AND_QUESTION, SELECT_ONE_SDG, SELECT_MAX_2_SDGS, PROVIDE_PROBLEM_AND_IDEA}

\* C13: the market-research action calls generate_research (and through it the
\* search and the completion backend) only when target market, research
\* question, problem and idea are all non-empty and 1 or 2 tags are selected; in
\* every other case it shows one validation message and calls no backend; the
\* matcher find_matching_problem is never called from this action.
C13_ValidationGatesBackends ==
    ResearchRequested =>
        /\ ValidRequest =>
              /\ outbound # <<>>
              /\ \A n \in 1..Len(outbound) :
                     /\ outbound[n].target_market = call.click.target_market
                     /\ outbound[n].research_question = call.click.research_question
                     /\ outbound[n].sdgs = session_state.selected_sdgs_research
        /\ ~ValidRequest =>
              /\ outbound = <<>>
              /\ \E message \in ValidationMessages : shown = <<Error(message)>>
        /\ \A n \in 1..Len(consulted) : consulted[n] # "find_matching_problem"
        /\ ret = ReturnNone

\* with a catalog at hand, a form lacking the idea is turned down with a message,
\* the tags, the market and the question being in order
C13_Witness ==
    /\ ResearchRequested
    /\ json_file = SmallCatalog
    /\ Cardinality(session_state.selected_sdgs_research) = 2
    /\ call.click.target_market # <<>> /\ call.click.research_question # <<>>
    /\ call.click.problem # <<>> /\ call.click.idea = <<>>
    /\ shown = <<Error(PROVIDE_PROBLEM_AND_IDEA)>>
    /\ outbound = <<>>

-----------------------------------------------------------------------------
(* C18: the research result kept in the session *)

\* the research result of the session: none or one
StoredResult(state) ==
    IF has(state, "research_results") THEN <<state.research_results>> ELSE <<>>

NineFields ==
    {"web_summary", "market_research", "competitor_insights", "web_sources", "problem",
     "idea", "sdgs", "target_market", "research_question"}

\* C18: every run of main() either leaves the stored research result as it was
\* (also when the run fails validation or generate_research returns no result) or,
\* when the run invoked generate_research and got a result, replaces it by exactly
\* that result with its nine fields; so the stored result is absent or the whole
\* result of the most recent invocation that returned one.
C18_StoredResultWhole ==
    [][LET invoked == ResearchRequested' /\ ValidRequest'
           done == generate_research(session_state'.selected_sdgs_research,
                                     call'.click.problem, call'.click.idea,
                                     call'.click.target_market,
                                     call'.click.research_question,
                                     tavily_client, search', oracle').ret
       IN
       IF invoked /\ done.kind = "return"
       THEN /\ StoredResult(session_state') = <<done.value>>
            /\ DOMAIN done.value = NineFields
       ELSE StoredResult(session_state') = StoredResult(session_state)]_vars

\* an invocation came back without a result (Internal error) and the session
\* still holds the result of an earlier invocation, made for other tags
C18_Witness ==
    /\ ResearchRequested
    /\ ValidRequest
    /\ shown = <<Error(INTERNAL_ERROR)>>
    /\ has(session_state, "research_results")
    /\ DOMAIN session_state.research_results = NineFields
    /\ session_state.research_results.sdgs # session_state.selected_sdgs_research

-----------------------------------------------------------------------------
(* C15: load_problems *)

\* C15: load_problems never raises; it returns an empty sequence when the file is
\* missing, reports the error and returns an empty sequence when the file cannot
\* be read or parsed, and returns the entries of the document, one element per
\* entry, when the document is valid.
C15_LoaderFailsSoft ==
    call.fn = "load_problems" =>
        /\ ret.kind = "return"
        /\ json_file.state = "missing" => ret.value = <<>> /\ shown = <<>>
        /\ json_file.state \in {"malformed", "unreadable"} =>
              /\ ret.value = <<>>
              /\ Len(shown) = 1
              /\ shown[1].level = "error"
              /\ shown[1].text[1] = "Error loading problems: "
        /\ json_file.state = "ok" =>
              /\ Len(ret.value) = Len(json_file.doc)
              /\ ret.value = json_file.doc
              /\ shown = <<>>

\* a document of two entries, one of them without ideas, comes back whole
C15_Witness ==
    /\ call.fn = "load_problems"
    /\ json_file.state = "ok"
    /\ Len(json_file.doc) = 2
    /\ "ideas" \notin DOMAIN json_file.doc[2]
    /\ ret = Return(json_file.doc)

-----------------------------------------------------------------------------
(* C16: outbound calls *)

\* C16: one invocation of generate_research issues at most one search call and at
\* most one completion call, the search call (when made) before the completion
\* call, and exactly one search call when the search fails (no second attempt);
\* one invocation of generate_student_questions, generate_sdg_questions or
\* evaluate_student_response issues at most one call, a completion call, also
\* when the oracle fails.
C16_AtMostOneCallEach ==
    /\ call.fn = "generate_research" =>
          /\ Cardinality(CallsTo("search")) <= 1
          /\ Cardinality(CallsTo("completion")) <= 1
          /\ Len(outbound) = Cardinality(CallsTo("search")) + Cardinality(CallsTo("completion"))
          /\ \A m \in CallsTo("search"), n \in CallsTo("completion") : m < n
          /\ search # Unused => Cardinality(CallsTo("search")) = 1
          /\ oracle # Unused => Cardinality(CallsTo("completion")) = 1
    /\ call.fn \in {"generate_student_questions", "generate_sdg_questions",
                    "evaluate_student_response"} =>
          /\ Len(outbound) <= 1
          /\ CallsTo("search") = {}
          /\ oracle # Unused => Len(outbound) = 1

\* the search failed, the oracle failed after it, and each was called once
C16_Witness ==
    /\ call.fn = "generate_research"
    /\ search.kind = "error"
    /\ oracle.kind = "error"
    /\ Len(outbound) = 2
    /\ outbound[1].to = "search"
    /\ outbound[2].to = "completion"

-----------------------------------------------------------------------------
(* C17: generate_research and the catalog *)

\* the catalog load_problems gives
Catalog == IF json_file.state = "ok" THEN json_file.doc ELSE <<>>

\* the entry matches the call: it has a problem text and meets the condition of C1
Matching(e) ==
    /\ "problem" \in DOMAIN e
    /\ Qualifies(e, call.sdgs, call.problem, call.idea)

\* C17: when problem or idea is empty and the catalog is empty or has no matching
\* entry, generate_research shows the error, returns the no-result value and
\* issues no call; when problem and idea are both non-empty, no catalog function
\* is called and the result's problem and idea are the texts supplied.
C17_CatalogOnlyWithoutProblemOrIdea ==
    call.fn = "generate_research" =>
        /\ ((call.problem = <<>> \/ call.idea = <<>>)
               /\ \A k \in 1..Len(Catalog) : ~Matching(Catalog[k])) =>
              /\ ret = ReturnNone
              /\ outbound = <<>>
              /\ shown # <<>>
              /\ shown[Len(shown)] = Error(NO_MATCH_ERROR)
        /\ (call.problem # <<>> /\ call.idea # <<>>) =>
              /\ consulted = <<>>
              /\ ret.kind = "return" =>
                    /\ ret.value.problem = call.problem
                    /\ ret.value.idea = call.idea

-----------------------------------------------------------------------------
(* C14: the question list and its metadata *)

\* the provenance each generation writes into the metadata
ModeOf ==
    [k \in {"Generate Questions from Research", "Generate Questions from Manual Input",
            "Generate SDG Questions"} |->
        CASE k = "Generate Questions from Research" -> "market_research"
          [] k = "Generate Questions from Manual Input" -> "manual_input"
          [] OTHER -> "sdg_based"]

\* the session holds a question list exactly when it holds a metadata record
Paired(state) == has(state, "generated_questions") <=> has(state, "question_metadata")

\* the metadata record of the session: none or one
StoredMetadata(state) ==
    IF has(state, "question_metadata") THEN <<state.question_metadata>> ELSE <<>>

-----------------------------------------------------------------------------
(* C19: the user's changes to the question list *)

\* the question list of the session: none or one
StoredQuestions(state) ==
    IF has(state, "generated_questions") THEN <<state.generated_questions>> ELSE <<>>

\* C19: a run started by an edit of question field i changes element i of the
\* list to the text entered and nothing else; "Add Custom Question" with a text
\* that is not blank appends the trimmed text and changes no other element, with
\* a blank text it leaves the list as it was; and the list is removed from the
\* session only by "Clear Questions".
C19_MutationsKeepOrder ==
    [][/\ call'.event.widget = "text_input" =>
             /\ has(session_state, "generated_questions")
             /\ StoredQuestions(session_state') =
                    <<[session_state.generated_questions
                          EXCEPT ![call'.event.i] = call'.event.text]>>
       /\ call'.click.button = "Add Custom Question" =>
             /\ has(session_state, "generated_questions")
             /\ StoredQuestions(session_state') =
                    IF strip(call'.click.custom_question) # <<>>
                    THEN <<Append(session_state.generated_questions,
                                  strip(call'.click.custom_question))>>
                    ELSE <<session_state.generated_questions>>
       /\ (StoredQuestions(session_state) # <<>> /\ StoredQuestions(session_state') = <<>>)
             => call'.click.button = "Clear Questions"]_vars

\* a custom question was added, trimmed, after a question that had been edited
C19_Witness ==
    /\ call.fn = "main"
    /\ call.click.button = "Add Custom Question"
    /\ call.click.custom_question = <<" ", "c">>
    /\ session_state.generated_questions = << <<"e">>, <<"c">> >>
    /\ widgets.question = << <<"e">>, <<"c">> >>

-----------------------------------------------------------------------------
(* C20: at most 2 tags *)

\* the selections the session stores, one for each panel
StoredSelections ==
    {get(session_state, "selected_sdgs_research", {}),
     get(session_state, "selected_sdgs_questions", {})}

\* C20: when the user toggles one checkbox per run of main(), and only a checkbox
\* the last run drew enabled, no selection stored in the session has more than 2
\* tags.
C20_AtMostTwoTags ==
    \A selection \in StoredSelections : Cardinality(selection) <= 2

-----------------------------------------------------------------------------
(* C21 *)

\* the last interaction was a press of "Clear SDG Selection"
ClearedSelection ==
    /\ call.fn = "main"
    /\ call.click = ClearSdgClick

\* C21: once "Clear SDG Selection" and the run it starts with st.rerun() have
\* completed, the tag selection of the question generator stored in the session
\* is empty.
C21_ClearEmptiesSelection ==
    ClearedSelection => get(session_state, "selected_sdgs_questions", {}) = {}

=============================================================================
